---- MODULE Spec2Model ----
(***************************************************************************)
(* A model of ls.go: the construction of Listings from file metadata, the  *)
(* exchange sort of sortListings with its comparison functions, the grid   *)
(* layout search and rendering of writeListingsToBuffer, the colour        *)
(* selection of writeListingName, the colour table built from LSCOLORS and *)
(* LS_COLORS, sortListingsDirsFirst, and the assembly of the output of ls  *)
(* from its file and directory arguments.                                  *)
(*                                                                         *)
(* Go strings are modelled as sequences of one-character strings, Go's     *)
(* 0-based index k is position k + 1 of the sequence, and a Go map is a    *)
(* function whose missing keys read as the empty string.                   *)
(***************************************************************************)
EXTENDS Integers, Sequences, FiniteSets, TLC

VARIABLES
  options,        \* the global Options (ls.go:88)
  colorMap,       \* the global colorMap (ls.go:87)
  env,            \* the environment: LSCOLORS and LS_COLORS
  files,          \* the FileInfoPaths handed to createListing
  listings,       \* the []Listing being sorted / written
  origin,         \* history: origin[k] is the input position of listings[k]
  input,          \* history: the slice as passed to sortListings
  sortedOut,      \* history: the slice when the exchange loop exits
  i,              \* sortListings: the inner loop index
  done,           \* sortListings: the "done" flag of the current pass
  terminalWidth,  \* writeListingsToBuffer: terminalWidth
  numRows,        \* writeListingsToBuffer: numRows
  colWidths,      \* writeListingsToBuffer: colWidths
  tried,          \* history: the row counts the search rejected
  r,              \* writeListingsToBuffer: the row being written
  outputBuffer,   \* the bytes.Buffer written to
  listFiles,      \* ls: the Listings of the non-directory arguments
  listDirs,       \* ls: the Listings of the directory arguments
  nextDir,        \* ls: the index in listDirs of the next directory to list
  pc              \* the position of the program

vars == <<options, colorMap, env, files, listings, origin, input, sortedOut, i, done,
          terminalWidth, numRows, colWidths, tried, r, outputBuffer, listFiles,
          listDirs, nextDir, pc>>

----------------------------------------------------------------------------
(* Bounds of the model.                                                    *)

\* the longest slice handed to sortListings
MaxLen == 3
\* the most names laid out in a grid
MaxNames == 7
\* the widest terminal
MaxWidth == 9

----------------------------------------------------------------------------
(* Bytes and strings.                                                      *)

\* the printable ASCII characters, in byte order from 32 (space) to 126; the
\* double quote, backslash and backtick are written as tokens
ASCII ==
  <<
    " ", "!", "DQUOTE", "#", "$", "%", "&", "'", "(", ")", "*", "+",
    ",", "-", ".", "/", "0", "1", "2", "3", "4", "5", "6", "7",
    "8", "9", ":", ";", "<", "=", ">", "?", "@", "A", "B", "C",
    "D", "E", "F", "G", "H", "I", "J", "K", "L", "M", "N", "O",
    "P", "Q", "R", "S", "T", "U", "V", "W", "X", "Y", "Z", "[",
    "BACKSLASH", "]", "^", "_", "BACKTICK", "a", "b", "c", "d", "e", "f", "g",
    "h", "i", "j", "k", "l", "m", "n", "o", "p", "q", "r", "s",
    "t", "u", "v", "w", "x", "y", "z", "{", "|", "}", "~"
  >>

Min(a, b) == IF a < b THEN a ELSE b

Max(a, b) == IF a > b THEN a ELSE b

\* the byte value of a printable character
Code(c) == 31 + (CHOOSE k \in 1..Len(ASCII) : ASCII[k] = c)

\* strings.ToLower on one ASCII byte
ToLowerByte(c) ==
  IF Code(c) >= 65 /\ Code(c) <= 90 THEN ASCII[Code(c) + 32 - 31] ELSE c

\* strings.ToLower
ToLower(s) == [k \in 1..Len(s) |-> ToLowerByte(s[k])]

\* s[from:to] of Go, 0-based and half-open
Slice(s, from, to) == SubSeq(s, from + 1, to)

Digits == <<"0", "1", "2", "3", "4", "5", "6", "7", "8", "9">>

IsDigit(c) == \E k \in 1..10 : Digits[k] = c

DigitValue(c) == (CHOOSE k \in 1..10 : Digits[k] = c) - 1

\* fmt.Sprintf("%d", n) and strconv.Itoa(n) for n >= 0
RECURSIVE Itoa(_)
Itoa(n) ==
  IF n < 10 THEN <<Digits[n + 1]>>
  ELSE Itoa(n \div 10) \o <<Digits[(n % 10) + 1]>>

RECURSIVE DigitsValue(_)
DigitsValue(s) ==
  IF s = <<>> THEN 0
  ELSE 10 * DigitsValue(SubSeq(s, 1, Len(s) - 1)) + DigitValue(s[Len(s)])

\* strconv.Atoi with its error dropped (n, _ := strconv.Atoi(s)): an optional
\* sign and then digits only; anything else is a syntax error and yields 0
Atoi(s) ==
  LET signed == s # <<>> /\ s[1] \in {"+", "-"}
      body   == IF signed THEN Tail(s) ELSE s
  IN  IF body = <<>> \/ \E k \in 1..Len(body) : ~IsDigit(body[k]) THEN 0
      ELSE IF signed /\ s[1] = "-" THEN 0 - DigitsValue(body)
      ELSE DigitsValue(body)

\* all sequences over S of length lo..hi
SeqsOf(S, lo, hi) == UNION {[1..n -> S] : n \in lo..hi}

\* the 0-based index of the first occurrence of sub in s, or -1 (strings.Index)
Index(s, sub) ==
  LET hits == {k \in 0..(Len(s) - Len(sub)) : Slice(s, k, k + Len(sub)) = sub}
  IN  IF hits = {} THEN 0 - 1 ELSE CHOOSE k \in hits : \A h \in hits : k <= h

\* strings.Replace(s, old, new, 1)
ReplaceFirst(s, old, new) ==
  LET k == Index(s, old)
  IN  IF k < 0 THEN s
      ELSE Slice(s, 0, k) \o new \o Slice(s, k + Len(old), Len(s))

\* strings.Contains(s, sub)
Contains(s, sub) == Index(s, sub) >= 0

\* strings.Split(s, sep) for a one-byte separator
RECURSIVE Split(_, _)
Split(s, sep) ==
  LET k == Index(s, <<sep>>)
  IN  IF k < 0 THEN <<s>>
      ELSE <<Slice(s, 0, k)>> \o Split(Slice(s, k + 1, Len(s)), sep)

----------------------------------------------------------------------------
(* createListing (ls.go:320-524): a FileInfoPath to a Listing.  A file     *)
(* mode is [flags, bits]: the type and flag letters that are set, and the  *)
(* positions 0..8 of "rwxrwxrwx" that are set.  Owner, group, month, day   *)
(* and time are fields no operation modelled here reads; they are left out.*)

\* os.FileMode.String(), which createListing calls at ls.go:324: the letters
\* of "dalTLDpSugct?" whose bits are set ("-" when none is), then the nine
\* permission characters
ModeLetters ==
  <<"d", "a", "l", "T", "L", "D", "p", "S", "u", "g", "c", "t", "?">>

ModeString(mode) ==
  LET letters == SelectSeq(ModeLetters, LAMBDA c : c \in mode.flags)
      rwx     == <<"r", "w", "x", "r", "w", "x", "r", "w", "x">>
  IN  (IF letters = <<>> THEN <<"-">> ELSE letters)
        \o [k \in 1..9 |-> IF (k - 1) \in mode.bits THEN rwx[k] ELSE "-"]

\* ls.go:324-382: the permissions string
Permissions(mode) ==
  LET p == ModeString(mode)
  IN  IF "L" \in mode.flags THEN ReplaceFirst(p, <<"L">>, <<"l">>)
      ELSE IF p[1] = "D" THEN Slice(p, 1, Len(p))
      ELSE IF Slice(p, 0, 2) = <<"u", "g">> THEN
        LET q == ReplaceFirst(p, <<"u", "g">>, <<"-">>)
        IN  Slice(q, 0, 3) \o <<"s">> \o Slice(q, 4, 6) \o <<"s">>
              \o Slice(q, 7, Len(q))
      ELSE IF p[1] = "u" THEN
        LET q == ReplaceFirst(p, <<"u">>, <<"-">>)
        IN  Slice(q, 0, 3) \o <<"s">> \o Slice(q, 4, Len(q))
      ELSE IF p[1] = "g" THEN
        LET q == ReplaceFirst(p, <<"g">>, <<"-">>)
        IN  Slice(q, 0, 6) \o <<"s">> \o Slice(q, 7, Len(q))
      ELSE IF Slice(p, 0, 2) = <<"d", "t">> THEN
        LET q == ReplaceFirst(p, <<"d", "t">>, <<"d">>)
        IN  Slice(q, 0, Len(q) - 1) \o <<"t">>
      ELSE p

RECURSIVE Pow1024(_)
Pow1024(c) == IF c = 0 THEN 1 ELSE 1024 * Pow1024(c - 1)

\* ls.go:427-431: the number of divisions by 1024 until size < 1.0; the
\* divisions are exact in float64, so size >= 1.0 after c of them is
\* bytes >= 1024^c
RECURSIVE Divisions(_, _)
Divisions(bytes, c) ==
  IF bytes >= Pow1024(c) THEN Divisions(bytes, c + 1) ELSE c

\* ls.go:440-457
Suffix(count) ==
  IF count = 0 THEN "B" ELSE IF count = 1 THEN "K" ELSE IF count = 2 THEN "M"
  ELSE IF count = 3 THEN "G" ELSE IF count = 4 THEN "T"
  ELSE IF count = 5 THEN "P" ELSE IF count = 6 THEN "E" ELSE "?"

\* fmt.Sprintf("%.1f", num/den): the nearest tenth, ties to even
Tenths(num, den) ==
  LET q   == (10 * num) \div den
      rem == (10 * num) % den
  IN  IF 2 * rem < den THEN q
      ELSE IF 2 * rem > den THEN q + 1
      ELSE IF q % 2 = 0 THEN q ELSE q + 1

\* ls.go:424-479: the size string
SizeString(bytes, human) ==
  IF ~human THEN Itoa(bytes)
  ELSE
    LET divs    == Divisions(bytes, 0)
        count   == IF divs > 0 THEN divs - 1 ELSE 0
        suffix  == Suffix(count)
        t       == Tenths(bytes, Pow1024(count))
        sizeStr == IF count = 0 THEN Itoa(bytes) \o <<suffix>>
                   ELSE Itoa(t \div 10) \o <<".">> \o Itoa(t % 10) \o <<suffix>>
        n       == Len(sizeStr)
    IN  IF n > 3 /\ Slice(sizeStr, n - 3, n - 1) = <<".", "0">>
        THEN Slice(sizeStr, 0, n - 3) \o <<suffix>>
        ELSE sizeStr

\* createListing on the paths where it returns no error
createListing(fip, opts) ==
  [ permissions  |-> Permissions(fip.mode),
    numHardLinks |-> Itoa(fip.nlink),
    size         |-> SizeString(fip.size, opts.human),
    epochNano    |-> fip.modTime,
    name         |-> fip.path,
    linkName     |-> IF "L" \in fip.mode.flags THEN fip.link ELSE <<>>,
    linkOrphan   |-> "L" \in fip.mode.flags /\ fip.targetMissing,
    isCharacter  |-> "c" \in fip.mode.flags,
    isBlock      |-> "c" \notin fip.mode.flags /\ "D" \in fip.mode.flags,
    isPipe       |-> {"c", "D"} \cap fip.mode.flags = {} /\ "p" \in fip.mode.flags,
    isSocket     |-> {"c", "D", "p"} \cap fip.mode.flags = {}
                       /\ "S" \in fip.mode.flags ]

\* a regular file rw-r--r-- with one link
RegularFile(path, size, modTime) ==
  [ path |-> path, mode |-> [flags |-> {}, bits |-> {0, 1, 3, 6}],
    nlink |-> 1, size |-> size, modTime |-> modTime, link |-> <<>>,
    targetMissing |-> FALSE ]

----------------------------------------------------------------------------
(* The colour table (ls.go:18-36, 91-232, 1043-1106).                      *)

colorFgBlack == 30
colorFgRed == 31
colorFgGreen == 32
colorFgBrown == 33
colorFgBlue == 34
colorFgMagenta == 35
colorFgCyan == 36
colorFgWhite == 37
colorBgBlack == 40
colorBgRed == 41
colorBgGreen == 42
colorBgBrown == 43
colorBgBlue == 44
colorBgMagenta == 45
colorBgCyan == 46
colorBgWhite == 47

\* the keys of colorMap that the program names, as Go strings
K_end == <<"e", "n", "d">>

K_directory == <<"d", "i", "r", "e", "c", "t", "o", "r", "y">>

K_symlink == <<"s", "y", "m", "l", "i", "n", "k">>

K_socket == <<"s", "o", "c", "k", "e", "t">>

K_pipe == <<"p", "i", "p", "e">>

K_executable == <<"e", "x", "e", "c", "u", "t", "a", "b", "l", "e">>

K_block == <<"b", "l", "o", "c", "k">>

K_character == <<"c", "h", "a", "r", "a", "c", "t", "e", "r">>

K_executable_suid ==
  <<
    "e", "x", "e", "c", "u", "t", "a", "b", "l", "e", "_", "s", "u", "i",
    "d">>

K_executable_sgid ==
  <<
    "e", "x", "e", "c", "u", "t", "a", "b", "l", "e", "_", "s", "g", "i",
    "d">>

K_directory_ow_sticky ==
  <<
    "d", "i", "r", "e", "c", "t", "o", "r", "y", "_", "o", "+", "w", "_",
    "s", "t", "i", "c", "k", "y">>

K_directory_ow ==
  <<
    "d", "i", "r", "e", "c", "t", "o", "r", "y", "_", "o", "+", "w">>

K_directory_sticky ==
  <<
    "d", "i", "r", "e", "c", "t", "o", "r", "y", "_", "s", "t", "i", "c",
    "k", "y">>

K_multi_hardlink ==
  <<
    "m", "u", "l", "t", "i", "_", "h", "a", "r", "d", "l", "i", "n", "k">>

K_link_orphan == <<"l", "i", "n", "k", "_", "o", "r", "p", "h", "a", "n">>

K_link_orphan_target ==
  <<
    "l", "i", "n", "k", "_", "o", "r", "p", "h", "a", "n", "_", "t", "a",
    "r", "g", "e", "t">>

\* the built-in LSCOLORS of ls.go:1104
DefaultLscolors ==
  <<
    "e", "x", "f", "x", "c", "x", "d", "x", "b", "x", "e", "g", "e", "d",
    "a", "b", "a", "g", "a", "c", "a", "d">>

\* m[key] of a Go map[string]string: a missing key reads as ""
Lookup(m, key) == IF key \in DOMAIN m THEN m[key] ELSE <<>>

\* m[key] = value of a Go map
Store(m, key, value) ==
  [k \in (DOMAIN m) \cup {key} |-> IF k = key THEN value ELSE m[k]]

\* the empty environment, and the empty map
NoEnv == [LSCOLORS |-> <<>>, LS_COLORS |-> <<>>]

\* ls.go:94-176
getPartialColor(foreground, letter) ==
  LET first  == IF foreground /\ letter = "x" THEN <<"0", ";">>
                ELSE IF ~foreground /\ letter # "x" THEN <<";">>
                ELSE <<>>
      second == IF foreground /\ Code(letter) >= 97 /\ Code(letter) <= 122
                  THEN <<"0", ";">>
                ELSE IF foreground /\ Code(letter) >= 65 /\ Code(letter) <= 90
                  THEN <<"1", ";">>
                ELSE <<>>
      fg     == <<colorFgBlack, colorFgRed, colorFgGreen, colorFgBrown,
                  colorFgBlue, colorFgMagenta, colorFgCyan, colorFgWhite>>
      bg     == <<colorBgBlack, colorBgRed, colorBgGreen, colorBgBrown,
                  colorBgBlue, colorBgMagenta, colorBgCyan, colorBgWhite>>
      third  == IF Code(letter) >= 97 /\ Code(letter) <= 104
                  THEN Itoa(IF foreground THEN fg[Code(letter) - 96]
                            ELSE bg[Code(letter) - 96])
                ELSE IF Code(letter) >= 65 /\ Code(letter) <= 72
                  THEN Itoa(fg[Code(letter) - 64])
                ELSE <<>>
  IN  first \o second \o third

\* ls.go:180-191
getColorFromBsdCode(code) ==
  <<"ESC", "[">> \o getPartialColor(TRUE, code[1])
    \o getPartialColor(FALSE, code[2]) \o <<"m">>

\* ls.go:197-230: the key that position k of LSCOLORS sets
BsdKeys ==
  <<K_directory, K_symlink, K_socket, K_pipe, K_executable, K_block,
    K_character, K_executable_suid, K_executable_sgid, K_directory_ow_sticky,
    K_directory_ow>>

\* ls.go:195-232, from index k on; LSCOLORS has even length
RECURSIVE parseLscolors(_, _, _)
parseLscolors(m, LSCOLORS, k) ==
  IF k >= Len(LSCOLORS) THEN m
  ELSE IF k \div 2 < Len(BsdKeys)
    THEN parseLscolors(
           Store(m, BsdKeys[(k \div 2) + 1],
                 getColorFromBsdCode(Slice(LSCOLORS, k, k + 2))),
           LSCOLORS, k + 2)
  ELSE parseLscolors(m, LSCOLORS, k + 2)

\* ls.go:1063-1097: the key of colorMap that an LS_COLORS key sets
LsColorsKey(key) ==
  IF key = <<"r", "s">> THEN K_end
  ELSE IF key = <<"d", "i">> THEN K_directory
  ELSE IF key = <<"l", "n">> THEN K_symlink
  ELSE IF key = <<"m", "h">> THEN K_multi_hardlink
  ELSE IF key = <<"p", "i">> THEN K_pipe
  ELSE IF key = <<"s", "o">> THEN K_socket
  ELSE IF key = <<"b", "d">> THEN K_block
  ELSE IF key = <<"c", "d">> THEN K_character
  ELSE IF key = <<"o", "r">> THEN K_link_orphan
  ELSE IF key = <<"m", "i">> THEN K_link_orphan_target
  ELSE IF key = <<"s", "u">> THEN K_executable_suid
  ELSE IF key = <<"s", "g">> THEN K_executable_sgid
  ELSE IF key = <<"t", "w">> THEN K_directory_ow_sticky
  ELSE IF key = <<"o", "w">> THEN K_directory_ow
  ELSE IF key = <<"s", "t">> THEN K_directory_sticky
  ELSE IF key = <<"e", "x">> THEN K_executable
  ELSE key

\* ls.go:1054-1101, over the entries that strings.Split gave; every
\* non-empty entry holds an "="
RECURSIVE parseLsColors(_, _)
parseLsColors(m, LsColorsSplit) ==
  IF LsColorsSplit = <<>> THEN m
  ELSE IF Head(LsColorsSplit) = <<>> THEN parseLsColors(m, Tail(LsColorsSplit))
  ELSE
    LET iSplit    == Split(Head(LsColorsSplit), "=")
        colorCode == <<"ESC", "[">> \o iSplit[2] \o <<"m">>
    IN  parseLsColors(Store(m, LsColorsKey(iSplit[1]), colorCode),
                      Tail(LsColorsSplit))

\* ls.go:1043-1106: the colour table of an environment
resolveColors(e) ==
  LET start == Store(<<>>, K_end, <<"ESC", "[", "0", "m">>)
  IN  IF e.LSCOLORS # <<>> THEN parseLscolors(start, e.LSCOLORS, 0)
      ELSE IF e.LS_COLORS # <<>>
        THEN parseLsColors(start, Split(e.LS_COLORS, ":"))
      ELSE parseLscolors(start, DefaultLscolors, 0)

----------------------------------------------------------------------------
(* The comparison functions (ls.go:546-596).                               *)

\* ls.go:558-564: the first differing byte of the lowered names decides
RECURSIVE compareBytes(_, _, _, _)
compareBytes(aNameLower, bNameLower, k, smallerLen) ==
  IF k >= smallerLen THEN 0
  ELSE IF Code(aNameLower[k + 1]) < Code(bNameLower[k + 1]) THEN 0 - 1
  ELSE IF Code(aNameLower[k + 1]) > Code(bNameLower[k + 1]) THEN 1
  ELSE compareBytes(aNameLower, bNameLower, k + 1, smallerLen)

compareName(a, b) ==
  LET c == compareBytes(ToLower(a.name), ToLower(b.name), 0,
                        Min(Len(a.name), Len(b.name)))
  IN  IF c # 0 THEN c
      ELSE IF Len(a.name) < Len(b.name) THEN 0 - 1
      ELSE IF Len(b.name) < Len(a.name) THEN 1
      ELSE 0

\* compareTime with the order inverted (oldest first)
compareTime_Ascending(a, b) == IF a.epochNano <= b.epochNano THEN 0 - 1 ELSE 1

compareTime(a, b) == IF a.epochNano >= b.epochNano THEN 0 - 1 ELSE 1

compareSize(a, b) == IF Atoi(a.size) >= Atoi(b.size) THEN 0 - 1 ELSE 1

\* ls.go:600-605
comparisonFunction(a, b) ==
  IF options.sortTime THEN compareTime(a, b)
  ELSE IF options.sortSize THEN compareSize(a, b)
  ELSE compareName(a, b)

----------------------------------------------------------------------------
(* sortListings (ls.go:599-644), one step per loop iteration.              *)

Swap(s, j, k) == [s EXCEPT ![j] = s[k], ![k] = s[j]]

\* middleIndex without the adjustment for even lengths
middleIndex_NoEvenAdjust(n) == n \div 2

\* ls.go:626-629
middleIndex(n) == IF n % 2 = 0 THEN (n \div 2) - 1 ELSE n \div 2

\* ls.go:631-642, from iteration k on
RECURSIVE reverseLoop(_, _)
reverseLoop(s, k) ==
  LET frontIndex == k
      rearIndex  == Len(s) - 1 - k
  IN  IF k > middleIndex(Len(s)) THEN s
      ELSE IF frontIndex = rearIndex THEN s
      ELSE reverseLoop(Swap(s, frontIndex + 1, rearIndex + 1), k + 1)

\* the values of every variable that sortListings does not touch
IdleGrid ==
  /\ terminalWidth = 0
  /\ numRows = 0
  /\ colWidths = <<>>
  /\ tried = {}
  /\ r = 0
  /\ outputBuffer = <<>>

\* the values of every variable that only ls touches
IdleLs ==
  /\ listFiles = <<>>
  /\ listDirs = <<>>
  /\ nextDir = 0

IdleSort ==
  /\ origin = <<>>
  /\ input = <<>>
  /\ sortedOut = <<>>
  /\ i = 0
  /\ done = FALSE

\* the files of a directory that listFilesInDir hands to sortListings
SortFiles ==
  { RegularFile(<<"b">>, 3072, 2),
    RegularFile(<<"A">>, 12288, 1),
    RegularFile(<<"a">>, 3072, 1),
    RegularFile(<<"a", "b">>, 1536, 3) }

SortInit ==
  /\ \E human \in BOOLEAN, sortReverse \in BOOLEAN,
        sortTime \in BOOLEAN, sortSize \in BOOLEAN :
       options = [ long |-> FALSE, one |-> FALSE, color |-> FALSE,
                   human |-> human, sortReverse |-> sortReverse,
                   sortTime |-> sortTime, sortSize |-> sortSize ]
  /\ files \in SeqsOf(SortFiles, 0, MaxLen)
  /\ colorMap = <<>>
  /\ env = NoEnv
  /\ listings = <<>>
  /\ IdleSort
  /\ IdleGrid
  /\ IdleLs
  /\ pc = "scan"

\* listFilesInDir (ls.go:684-698): a Listing per file, then sortListings
ListFiles ==
  /\ pc = "scan"
  /\ listings' = [k \in 1..Len(files) |-> createListing(files[k], options)]
  /\ input' = listings'
  /\ origin' = [k \in 1..Len(files) |-> k]
  /\ pc' = "pass"
  /\ UNCHANGED <<listFiles, listDirs, nextDir, options, colorMap, env, files, sortedOut, i, done, terminalWidth,
                 numRows, colWidths, tried, r, outputBuffer>>

\* ls.go:607-609: a pass of the exchange sort begins
PassStart ==
  /\ pc = "pass"
  /\ done' = TRUE
  /\ i' = 0
  /\ pc' = "inner"
  /\ UNCHANGED <<listFiles, listDirs, nextDir, options, colorMap, env, files, listings, origin, input, sortedOut,
                 terminalWidth, numRows, colWidths, tried, r, outputBuffer>>

\* ls.go:609-619: one iteration of the inner loop
Compare ==
  /\ pc = "inner"
  /\ i < Len(listings) - 1
  /\ IF comparisonFunction(listings[i + 1], listings[i + 2]) > 0 - 1
     THEN /\ listings' = Swap(listings, i + 1, i + 2)
          /\ origin' = Swap(origin, i + 1, i + 2)
          /\ done' = FALSE
     ELSE UNCHANGED <<listings, origin, done>>
  /\ i' = i + 1
  /\ UNCHANGED <<listFiles, listDirs, nextDir, options, colorMap, env, files, input, sortedOut, terminalWidth,
                 numRows, colWidths, tried, r, outputBuffer, pc>>

\* ls.go:620-622: the inner loop is over; leave the outer loop when done
PassEnd ==
  /\ pc = "inner"
  /\ i >= Len(listings) - 1
  /\ IF done THEN pc' = "reverse" /\ sortedOut' = listings
     ELSE pc' = "pass" /\ UNCHANGED sortedOut
  /\ UNCHANGED <<listFiles, listDirs, nextDir, options, colorMap, env, files, listings, origin, input, i, done,
                 terminalWidth, numRows, colWidths, tried, r, outputBuffer>>

\* ls.go:625-643: the reversal, and sortListings returns
Reverse ==
  /\ pc = "reverse"
  /\ IF options.sortReverse
     THEN /\ listings' = reverseLoop(listings, 0)
          /\ origin' = reverseLoop(origin, 0)
     ELSE UNCHANGED <<listings, origin>>
  /\ pc' = "sorted"
  /\ UNCHANGED <<listFiles, listDirs, nextDir, options, colorMap, env, files, input, sortedOut, i, done,
                 terminalWidth, numRows, colWidths, tried, r, outputBuffer>>

SortNext == ListFiles \/ PassStart \/ Compare \/ PassEnd \/ Reverse

SortSpec == SortInit /\ [][SortNext]_vars

\* the program is sequential and runs whenever it can take a step
FairSortSpec == SortSpec /\ WF_vars(SortNext)

----------------------------------------------------------------------------
(* Properties of sortListings.                                             *)

NameKey == ~options.sortTime /\ ~options.sortSize

SizeKey == ~options.sortTime /\ options.sortSize

\* s back to front
Reversed(s) == [k \in 1..Len(s) |-> s[Len(s) + 1 - k]]

\* listings holds exactly the entries of input, each once
IsPermutation ==
  /\ Len(listings) = Len(input)
  /\ {origin[k] : k \in 1..Len(origin)} = 1..Len(input)
  /\ \A k \in 1..Len(listings) : listings[k] = input[origin[k]]

\* the names of a slice
Names(s) == [k \in 1..Len(s) |-> s[k].name]

\* C1: sortListings terminates on every finite slice, for each sort key, with
\* or without reversal, also when two entries compare as equal.
C1_Terminates == <>(pc = "sorted")

\* C2: with the name key and no reversal sortListings returns a permutation
\* of its input whose adjacent pairs satisfy compareName(x, y) <= 0 and whose
\* equal-named entries keep their input order; ["b","A","a"] becomes
\* ["A","a","b"].
C2_NameSortStable ==
  /\ [](pc = "sorted" /\ NameKey /\ ~options.sortReverse =>
          /\ IsPermutation
          /\ \A k \in 1..(Len(listings) - 1) :
               compareName(listings[k], listings[k + 1]) <= 0
          /\ \A j, k \in 1..Len(listings) :
               j < k /\ compareName(listings[j], listings[k]) = 0
                 => origin[j] < origin[k])
  /\ (pc = "scan" /\ NameKey /\ ~options.sortReverse
        /\ [k \in 1..Len(files) |-> files[k].path]
             = << <<"b">>, <<"A">>, <<"a">> >>)
       ~> (pc = "sorted"
             /\ Names(listings) = << <<"A">>, <<"a">>, <<"b">> >>)

\* C3: with sortReverse the returned slice is the element-by-element reverse
\* of the slice returned without it (the slice the exchange loop leaves), for
\* every length, and reversing it once more restores that slice.
C3_ReverseExact ==
  pc = "sorted" =>
    IF options.sortReverse
    THEN /\ listings = Reversed(sortedOut)
         /\ reverseLoop(listings, 0) = sortedOut
    ELSE listings = sortedOut

C3_Witness ==
  /\ pc = "sorted"
  /\ options.sortReverse
  /\ Len(listings) = 3
  /\ listings[1] # sortedOut[1]

\* the integer a size string starts with ("12K" and "12.5K" give 12)
RECURSIVE LeadingDigits(_)
LeadingDigits(s) ==
  IF s = <<>> \/ ~IsDigit(s[1]) THEN <<>> ELSE <<s[1]>> \o LeadingDigits(Tail(s))

Magnitude(size) == DigitsValue(LeadingDigits(size))

\* C4: with the size key the entries come out in non-increasing order of the
\* integer their size field starts with; for a human-readable size that is
\* the displayed magnitude ("12K" is 12 and sorts before "3K").
C4_SizeOrder ==
  pc = "sorted" /\ SizeKey /\ ~options.sortReverse =>
    \A k \in 1..(Len(listings) - 1) :
      Magnitude(listings[k].size) >= Magnitude(listings[k + 1].size)

\* C5: with the time key and no reversal sortListings returns a permutation
\* of its input in non-increasing order of epochNano, and entries with equal
\* epochNano keep their input order.
C5_TimeStable ==
  pc = "sorted" /\ options.sortTime /\ ~options.sortReverse =>
    /\ IsPermutation
    /\ \A k \in 1..(Len(listings) - 1) :
         listings[k].epochNano >= listings[k + 1].epochNano
    /\ \A j, k \in 1..Len(listings) :
         j < k /\ listings[j].epochNano = listings[k].epochNano
           => origin[j] < origin[k]

C5_Witness ==
  /\ pc = "sorted"
  /\ options.sortTime
  /\ ~options.sortReverse
  /\ listings # input
  /\ \E j, k \in 1..Len(listings) :
       /\ j < k
       /\ listings[j].epochNano = listings[k].epochNano
       /\ listings[j] # listings[k]

----------------------------------------------------------------------------
(* writeListingName (ls.go:236-316).                                       *)

\* ls.go:243-248: "file.name.txt" -> "*.txt", "" for a name without "."
extensionStr(name) ==
  LET nameSplit == Split(name, ".")
  IN  IF Len(nameSplit) > 1 THEN <<"*", ".">> \o nameSplit[Len(nameSplit)]
      ELSE <<>>

\* colorKey with the plain-directory test moved to the front
colorKey_DirectoryFirst(l) ==
  LET p == l.permissions
  IN  IF p[1] = "d" THEN K_directory
      ELSE IF p[1] = "d" /\ p[9] = "w" /\ p[10] = "t" THEN K_directory_ow_sticky
      ELSE IF p[1] = "d" /\ p[10] = "t" THEN K_directory_sticky
      ELSE IF p[1] = "d" /\ p[9] = "w" THEN K_directory_ow
      ELSE IF extensionStr(l.name) # <<>>
              /\ Lookup(colorMap, extensionStr(l.name)) # <<>>
        THEN extensionStr(l.name)
      ELSE IF Atoi(l.numHardLinks) > 1 THEN K_multi_hardlink
      ELSE IF p[1] = "l" /\ l.linkOrphan THEN K_link_orphan
      ELSE IF p[1] = "l" THEN K_symlink
      ELSE IF p[4] = "s" THEN K_executable_suid
      ELSE IF p[7] = "s" THEN K_executable_sgid
      ELSE IF Contains(p, <<"x">>) THEN K_executable
      ELSE IF l.isSocket THEN K_socket
      ELSE IF l.isPipe THEN K_pipe
      ELSE IF l.isBlock THEN K_block
      ELSE IF l.isCharacter THEN K_character
      ELSE <<>>

\* colorKey with the sticky test ahead of the world-writable sticky test
colorKey_StickyFirst(l) ==
  LET p == l.permissions
  IN  IF extensionStr(l.name) # <<>>
         /\ Lookup(colorMap, extensionStr(l.name)) # <<>>
        THEN extensionStr(l.name)
      ELSE IF p[1] = "d" /\ p[10] = "t" THEN K_directory_sticky
      ELSE IF p[1] = "d" /\ p[9] = "w" /\ p[10] = "t" THEN K_directory_ow_sticky
      ELSE IF p[1] = "d" /\ p[9] = "w" THEN K_directory_ow
      ELSE IF p[1] = "d" THEN K_directory
      ELSE IF Atoi(l.numHardLinks) > 1 THEN K_multi_hardlink
      ELSE IF p[1] = "l" /\ l.linkOrphan THEN K_link_orphan
      ELSE IF p[1] = "l" THEN K_symlink
      ELSE IF p[4] = "s" THEN K_executable_suid
      ELSE IF p[7] = "s" THEN K_executable_sgid
      ELSE IF Contains(p, <<"x">>) THEN K_executable
      ELSE IF l.isSocket THEN K_socket
      ELSE IF l.isPipe THEN K_pipe
      ELSE IF l.isBlock THEN K_block
      ELSE IF l.isCharacter THEN K_character
      ELSE <<>>

\* ls.go:250-296: the key whose colour is written before the name, <<>> when
\* no branch is taken (appliedColor stays false)
colorKey(l) ==
  LET p == l.permissions
  IN  IF extensionStr(l.name) # <<>>
         /\ Lookup(colorMap, extensionStr(l.name)) # <<>>
        THEN extensionStr(l.name)
      ELSE IF p[1] = "d" /\ p[9] = "w" /\ p[10] = "t" THEN K_directory_ow_sticky
      ELSE IF p[1] = "d" /\ p[10] = "t" THEN K_directory_sticky
      ELSE IF p[1] = "d" /\ p[9] = "w" THEN K_directory_ow
      ELSE IF p[1] = "d" THEN K_directory
      ELSE IF Atoi(l.numHardLinks) > 1 THEN K_multi_hardlink
      ELSE IF p[1] = "l" /\ l.linkOrphan THEN K_link_orphan
      ELSE IF p[1] = "l" THEN K_symlink
      ELSE IF p[4] = "s" THEN K_executable_suid
      ELSE IF p[7] = "s" THEN K_executable_sgid
      ELSE IF Contains(p, <<"x">>) THEN K_executable
      ELSE IF l.isSocket THEN K_socket
      ELSE IF l.isPipe THEN K_pipe
      ELSE IF l.isBlock THEN K_block
      ELSE IF l.isCharacter THEN K_character
      ELSE <<>>

\* ls.go:306-315: what follows the name of a symlink in a long listing
linkTail(l) ==
  IF l.permissions[1] = "l" /\ options.long
  THEN IF l.linkOrphan
       THEN <<" ", "-", ">", " ">> \o Lookup(colorMap, K_link_orphan_target)
              \o l.linkName \o Lookup(colorMap, K_end)
       ELSE <<" ", "-", ">", " ">> \o l.linkName
  ELSE <<>>

\* ls.go:236-316: the buffer after writeListingName(outputBuffer, l)
writeListingName(buffer, l) ==
  LET key   == colorKey(l)
      named ==
        IF options.color
        THEN IF key # <<>>
             THEN buffer \o Lookup(colorMap, key) \o l.name
                    \o Lookup(colorMap, K_end)
             ELSE buffer \o l.name
        ELSE buffer \o l.name
  IN  named \o linkTail(l)

----------------------------------------------------------------------------
(* writeListingsToBuffer in grid mode (ls.go:705-711, 816-888).            *)

\* math.Ceil(float64(n) / float64(numRows)) as an int (ls.go:823-825)
numColsFor(n, rows) == (n + rows - 1) \div rows

\* ls.go:839-845 from index k on: the widths and the entry counts of the
\* columns, as <<colWidths, colListings>>
RECURSIVE fillColumns(_, _, _, _, _)
fillColumns(ls, rows, k, widths, counts) ==
  IF k >= Len(ls) THEN <<widths, counts>>
  ELSE
    LET col == (k \div rows) + 1
    IN  fillColumns(ls, rows, k + 1,
          [widths EXCEPT ![col] = Max(widths[col], Len(ls[k + 1].name))],
          [counts EXCEPT ![col] = counts[col] + 1])

\* s[1] + ... + s[k]
RECURSIVE SumTo(_, _)
SumTo(s, k) == IF k = 0 THEN 0 ELSE s[k] + SumTo(s, k - 1)

Sum(s) == SumTo(s, Len(s))

\* make([]int, n) with every element set to 0 (ls.go:827-835)
RECURSIVE Zeros(_)
Zeros(n) == IF n = 0 THEN <<>> ELSE Append(Zeros(n - 1), 0)

\* maxRowLength without the separators between the columns
maxRowLength_NoSeparator(widths) == Sum(widths)

\* ls.go:848-852; the separator is two spaces
maxRowLength(widths) == Sum(widths) + 2 * (Len(widths) - 1)

\* shortLastColumn with the test for a short last column left out
shortLastColumn_Never(listingsInFirstCol, listingsInLastCol) == FALSE

\* shortLastColumn with every last column taken for short
shortLastColumn_Always(listingsInFirstCol, listingsInLastCol) == TRUE

\* ls.go:863-864
shortLastColumn(listingsInFirstCol, listingsInLastCol) ==
  /\ listingsInLastCol <= listingsInFirstCol \div 2
  /\ listingsInFirstCol - listingsInLastCol >= 5

\* a directory rwxr-xr-x
Directory(path) ==
  [ path |-> path, mode |-> [flags |-> {"d"}, bits |-> {0, 1, 2, 3, 5, 6, 8}],
    nlink |-> 2, size |-> 4096, modTime |-> 0, link |-> <<>>,
    targetMissing |-> FALSE ]

\* the entries a directory listing is laid out from: a file "a" and a
\* directory "bbb"
GridFiles == {RegularFile(<<"a">>, 0, 0), Directory(<<"b", "b", "b">>)}

GridInit ==
  /\ \E color \in BOOLEAN :
       options = [ long |-> FALSE, one |-> FALSE, color |-> color,
                   human |-> FALSE, sortReverse |-> FALSE,
                   sortTime |-> FALSE, sortSize |-> FALSE ]
  /\ env = NoEnv
  /\ colorMap = IF options.color THEN resolveColors(env) ELSE <<>>
  /\ files \in SeqsOf(GridFiles, 0, MaxNames)
  /\ listings = [k \in 1..Len(files) |-> createListing(files[k], options)]
  /\ terminalWidth \in 1..MaxWidth
  /\ IdleSort
  /\ IdleLs
  /\ numRows = 0
  /\ colWidths = <<>>
  /\ tried = {}
  /\ r = 0
  /\ outputBuffer = <<>>
  /\ pc = "write"

\* ls.go:709-711: nothing is written for no listings
WriteNothing ==
  /\ pc = "write"
  /\ Len(listings) = 0
  /\ pc' = "written"
  /\ UNCHANGED <<listFiles, listDirs, nextDir, options, colorMap, env, files, listings, origin, input,
                 sortedOut, i, done, terminalWidth, numRows, colWidths, tried,
                 r, outputBuffer>>

\* ls.go:817-821: grid mode starts the search at one row
StartLayout ==
  /\ pc = "write"
  /\ Len(listings) > 0
  /\ ~options.long /\ ~options.one
  /\ numRows' = 1
  /\ pc' = "layout"
  /\ UNCHANGED <<listFiles, listDirs, nextDir, options, colorMap, env, files, listings, origin, input,
                 sortedOut, i, done, terminalWidth, colWidths, tried, r,
                 outputBuffer>>

\* ls.go:822-870: one iteration of the search for the row count
TryRows ==
  /\ pc = "layout"
  /\ LET numCols == numColsFor(Len(listings), numRows)
         filled  == fillColumns(listings, numRows, 0,
                                Zeros(numCols), Zeros(numCols))
         newWidths == filled[1]
         colListings == filled[2]
     IN  /\ colWidths' = newWidths
         /\ IF maxRowLength(newWidths) > terminalWidth
                 /\ numRows >= Len(listings)
            THEN /\ pc' = "rows"
                 /\ UNCHANGED <<numRows, tried>>
            ELSE IF maxRowLength(newWidths) > terminalWidth
            THEN /\ numRows' = numRows + 1
                 /\ tried' = tried \cup {[rows |-> numRows, why |-> "overflow"]}
                 /\ pc' = "layout"
            ELSE IF shortLastColumn(colListings[1], colListings[Len(colListings)])
            THEN /\ numRows' = numRows + 1
                 /\ tried' = tried \cup {[rows |-> numRows, why |-> "short"]}
                 /\ pc' = "layout"
            ELSE /\ pc' = "rows"
                 /\ UNCHANGED <<numRows, tried>>
  /\ r' = 0
  /\ UNCHANGED <<listFiles, listDirs, nextDir, options, colorMap, env, files, listings, origin, input,
                 sortedOut, i, done, terminalWidth, outputBuffer>>

\* n spaces
Spaces(n) == [k \in 1..n |-> " "]

\* ls.go:873-881 from index k on: the entries of row r, each followed by its
\* padding and the separator
RECURSIVE writeRow(_, _)
writeRow(buffer, k) ==
  IF k >= Len(listings) THEN buffer
  ELSE IF k % numRows = r
    THEN writeRow(
           writeListingName(buffer, listings[k + 1])
             \o Spaces(colWidths[(k \div numRows) + 1] - Len(listings[k + 1].name))
             \o <<" ", " ">>,
           k + 1)
  ELSE writeRow(buffer, k + 1)

\* bytes.Buffer.Truncate(n)
Truncate(buffer, n) == SubSeq(buffer, 1, n)

\* ls.go:872-886: one row of the grid
WriteRow ==
  /\ pc = "rows"
  /\ r < numRows
  /\ LET row == writeRow(outputBuffer, 0)
     IN  outputBuffer' = Truncate(row, Len(row) - 2) \o <<"\n">>
  /\ r' = r + 1
  /\ UNCHANGED <<listFiles, listDirs, nextDir, options, colorMap, env, files, listings, origin, input,
                 sortedOut, i, done, terminalWidth, numRows, colWidths, tried,
                 pc>>

\* ls.go:887: the last newline is dropped
FinishGrid ==
  /\ pc = "rows"
  /\ r >= numRows
  /\ outputBuffer' = Truncate(outputBuffer, Len(outputBuffer) - 1)
  /\ pc' = "written"
  /\ UNCHANGED <<listFiles, listDirs, nextDir, options, colorMap, env, files, listings, origin, input,
                 sortedOut, i, done, terminalWidth, numRows, colWidths, tried,
                 r>>

GridNext == WriteNothing \/ StartLayout \/ TryRows \/ WriteRow \/ FinishGrid

GridSpec == GridInit /\ [][GridNext]_vars

----------------------------------------------------------------------------
(* Properties of the grid layout.                                          *)

\* the positions 1..n of the entries that column c holds with R rows
ColumnOf(R, c) == {k \in 1..Len(listings) : (k - 1) \div R = c - 1}

\* ceil(n / R)
CeilDiv(n, R) == CHOOSE m \in 0..n : m * R >= n /\ (m - 1) * R < n

SetMax(S) == CHOOSE x \in S : \A y \in S : y <= x

\* the widest name of each column with R rows
ColumnMax(R) ==
  [c \in 1..CeilDiv(Len(listings), R) |->
     SetMax({Len(listings[k].name) : k \in ColumnOf(R, c)})]

\* the layout with R rows is no wider than the terminal
Fits(R) ==
  Sum(ColumnMax(R)) + 2 * (CeilDiv(Len(listings), R) - 1) <= terminalWidth

\* the last column of the layout with R rows is short
ShortLast(R) ==
  LET first == Cardinality(ColumnOf(R, 1))
      last  == Cardinality(ColumnOf(R, CeilDiv(Len(listings), R)))
  IN  last <= first \div 2 /\ first - last >= 5

Accepts(R) == R = Len(listings) \/ (Fits(R) /\ ~ShortLast(R))

\* C6: for n >= 1 names the search accepts the least row count R in 1..n
\* with R = n or (the layout fits and its last column is not short); every
\* smaller R was rejected for overflowing or for a short last column, and
\* the column widths kept are the per-column maxima for the accepted R.
C6_LeastRows ==
  pc \in {"rows", "written"} /\ Len(listings) >= 1 =>
    /\ numRows \in 1..Len(listings)
    /\ Accepts(numRows)
    /\ \A R \in 1..(numRows - 1) : ~Accepts(R)
    /\ tried = {[rows |-> R, why |-> IF Fits(R) THEN "short" ELSE "overflow"] :
                  R \in 1..(numRows - 1)}
    /\ colWidths = ColumnMax(numRows)

C6_Witness ==
  /\ pc = "rows"
  /\ Accepts(numRows)
  /\ \E t \in tried : t.why = "short"
  /\ \E t \in tried : t.why = "overflow"

\* the lines of the output
Lines(buffer) == Split(buffer, "\n")

NamesFit == \A k \in 1..Len(listings) : Len(listings[k].name) <= terminalWidth

\* C7: in grid mode with color disabled, for names no wider than the target
\* width, every output line (padding included) is at most that wide.
C7_LinesFit ==
  pc = "written" /\ ~options.color /\ Len(listings) >= 1 /\ NamesFit =>
    \A k \in 1..Len(Lines(outputBuffer)) :
      Len(Lines(outputBuffer)[k]) <= terminalWidth

C7_Witness ==
  /\ pc = "written"
  /\ ~options.color
  /\ NamesFit
  /\ numRows >= 2
  /\ Len(colWidths) >= 2
  /\ \E k \in 1..Len(Lines(outputBuffer)) :
       LET line == Lines(outputBuffer)[k]
       IN  Len(line) = terminalWidth /\ line[Len(line)] = " "

----------------------------------------------------------------------------
(* One command-line argument: ls resolves the colours (ls.go:1043-1106),   *)
(* builds the Listing (ls.go:1130-1146) and writes its name                *)
(* (ls.go:1185, 236-316).                                                  *)

\* an LS_COLORS in the style of dircolors, with a glob, "ca" and no "do"
GnuLsColors ==
  <<
    "r", "s", "=", "0", ":", "d", "i", "=", "0", "1", ";", "3", "4", ":",
    "l", "n", "=", "0", "1", ";", "3", "6", ":", "m", "h", "=", "0", "0",
    ":", "p", "i", "=", "3", "3", ":", "s", "o", "=", "0", "1", ";", "3",
    "5", ":", "b", "d", "=", "3", "3", ";", "0", "1", ":", "c", "d", "=",
    "3", "3", ";", "0", "1", ":", "o", "r", "=", "4", "0", ";", "3", "1",
    ";", "0", "1", ":", "m", "i", "=", "0", "0", ":", "s", "u", "=", "3",
    "7", ";", "4", "1", ":", "s", "g", "=", "3", "0", ";", "4", "3", ":",
    "c", "a", "=", "3", "0", ";", "4", "1", ":", "t", "w", "=", "3", "0",
    ";", "4", "2", ":", "o", "w", "=", "3", "4", ";", "4", "2", ":", "s",
    "t", "=", "3", "7", ";", "4", "4", ":", "e", "x", "=", "0", "1", ";",
    "3", "2", ":", "*", ".", "t", "x", "t", "=", "3", "2"
  >>

\* an LS_COLORS that defines a glob and directory only
SmallLsColors ==
  <<
    "*", ".", "t", "x", "t", "=", "3", "2", ":", "d", "i", "=", "0", "1",
    ";", "3", "4"
  >>

\* an LSCOLORS with a bold directory colour
BsdLscolors ==
  <<
    "G", "x", "f", "x", "c", "x", "d", "x", "b", "x", "e", "g", "e", "d",
    "a", "b", "a", "g", "a", "c", "a", "d"
  >>

Envs ==
  { NoEnv,
    [LSCOLORS |-> BsdLscolors, LS_COLORS |-> <<>>],
    [LSCOLORS |-> <<>>, LS_COLORS |-> GnuLsColors],
    [LSCOLORS |-> <<>>, LS_COLORS |-> SmallLsColors] }

\* the type and flag letters of the modes listed: a regular file, d, L, D,
\* Dc, p, S, u, g, ug, dt, dg
ModeFlags ==
  { {}, {"d"}, {"L"}, {"D"}, {"D", "c"}, {"p"}, {"S"}, {"u"}, {"g"},
    {"u", "g"}, {"d", "t"}, {"d", "g"} }

\* rw-r--r--, rwxr-xr-x, rwxrwxrwx, rw-rw-rw-
ModeBits ==
  { {0, 1, 3, 6}, {0, 1, 2, 3, 5, 6, 8}, 0..8, {0, 1, 3, 4, 6, 7} }

\* "f", "f.txt", "a.b"
ArgPaths == { <<"f">>, <<"f", ".", "t", "x", "t">>, <<"a", ".", "b">> }

NameInit ==
  /\ \E color \in BOOLEAN, long \in BOOLEAN :
       options = [ long |-> long, one |-> FALSE, color |-> color,
                   human |-> FALSE, sortReverse |-> FALSE,
                   sortTime |-> FALSE, sortSize |-> FALSE ]
  /\ env \in Envs
  /\ colorMap = <<>>
  /\ \E path \in ArgPaths, flags \in ModeFlags, bits \in ModeBits,
        nlink \in 1..2, targetMissing \in BOOLEAN :
       /\ targetMissing => "L" \in flags
       /\ files = << [ path |-> path, mode |-> [flags |-> flags, bits |-> bits],
                       nlink |-> nlink, size |-> 0, modTime |-> 0,
                       link |-> IF "L" \in flags THEN <<"t">> ELSE <<>>,
                       targetMissing |-> targetMissing ] >>
  /\ listings = <<>>
  /\ IdleSort
  /\ IdleGrid
  /\ IdleLs
  /\ pc = "env"

\* ls.go:1043-1106
ResolveColors ==
  /\ pc = "env"
  /\ colorMap' = IF options.color THEN resolveColors(env) ELSE colorMap
  /\ pc' = "stat"
  /\ UNCHANGED <<listFiles, listDirs, nextDir, options, env, files, listings, origin, input, sortedOut, i,
                 done, terminalWidth, numRows, colWidths, tried, r,
                 outputBuffer>>

\* ls.go:1130-1146
CreateListing ==
  /\ pc = "stat"
  /\ listings' = <<createListing(files[1], options)>>
  /\ pc' = "name"
  /\ UNCHANGED <<listFiles, listDirs, nextDir, options, colorMap, env, files, origin, input, sortedOut, i,
                 done, terminalWidth, numRows, colWidths, tried, r,
                 outputBuffer>>

\* ls.go:1185
WriteName ==
  /\ pc = "name"
  /\ outputBuffer' = writeListingName(outputBuffer, listings[1])
  /\ pc' = "named"
  /\ UNCHANGED <<listFiles, listDirs, nextDir, options, colorMap, env, files, listings, origin, input,
                 sortedOut, i, done, terminalWidth, numRows, colWidths, tried,
                 r>>

NameNext == ResolveColors \/ CreateListing \/ WriteName

NameSpec == NameInit /\ [][NameNext]_vars

----------------------------------------------------------------------------
(* Properties of writeListingName and of the permissions field.            *)

\* the categories in the order of their rules; the first stands for the
\* extension glob of the name
Categories ==
  << <<"*", ".">>, K_directory_ow_sticky, K_directory_sticky, K_directory_ow,
     K_directory, K_multi_hardlink, K_link_orphan, K_symlink,
     K_executable_suid, K_executable_sgid, K_executable, K_socket, K_pipe,
     K_block, K_character >>

\* the name has an extension and its glob is a key of the table
GlobPresent(l) ==
  /\ \E k \in 1..Len(l.name) : l.name[k] = "."
  /\ extensionStr(l.name) \in DOMAIN colorMap

\* permissions[k] of Go is the byte c
PermIs(l, k, c) == Len(l.permissions) > k /\ l.permissions[k + 1] = c

\* the condition of the rule of category n
RuleHolds(n, l) ==
  CASE n = 1  -> GlobPresent(l)
    [] n = 2  -> PermIs(l, 0, "d") /\ PermIs(l, 8, "w") /\ PermIs(l, 9, "t")
    [] n = 3  -> PermIs(l, 0, "d") /\ PermIs(l, 9, "t")
    [] n = 4  -> PermIs(l, 0, "d") /\ PermIs(l, 8, "w")
    [] n = 5  -> PermIs(l, 0, "d")
    [] n = 6  -> Atoi(l.numHardLinks) > 1
    [] n = 7  -> PermIs(l, 0, "l") /\ l.linkOrphan
    [] n = 8  -> PermIs(l, 0, "l")
    [] n = 9  -> PermIs(l, 3, "s")
    [] n = 10 -> PermIs(l, 6, "s")
    [] n = 11 -> \E k \in 1..Len(l.permissions) : l.permissions[k] = "x"
    [] n = 12 -> l.isSocket
    [] n = 13 -> l.isPipe
    [] n = 14 -> l.isBlock
    [] n = 15 -> l.isCharacter

\* the table entry of category n for the listing
CategoryColor(n, l) ==
  Lookup(colorMap, IF n = 1 THEN extensionStr(l.name) ELSE Categories[n])

\* C8: with color enabled writeListingName writes, before the name, the
\* table entry of the first category in the fixed order whose rule holds for
\* the listing (the glob only when its key is in the table) and the reset
\* after the name; when no rule holds it writes neither.
C8_FirstRuleWins ==
  pc = "named" /\ options.color =>
    LET l    == listings[1]
        hits == {n \in 1..Len(Categories) : RuleHolds(n, l)}
    IN  IF hits = {}
        THEN outputBuffer = l.name \o linkTail(l)
        ELSE LET first == CHOOSE n \in hits : \A m \in hits : n <= m
             IN  outputBuffer = CategoryColor(first, l) \o l.name
                                  \o Lookup(colorMap, K_end) \o linkTail(l)

\* a directory with hard links, named with an extension whose glob is in
\* the table: four rules hold and the glob wins
C8_Witness ==
  /\ pc = "named"
  /\ options.color
  /\ Cardinality({n \in 1..Len(Categories) : RuleHolds(n, listings[1])}) >= 4
  /\ RuleHolds(1, listings[1])
  /\ CategoryColor(1, listings[1]) # CategoryColor(5, listings[1])

\* a directory with the world-writable and the sticky bit
StickyWorldWritable(l) ==
  PermIs(l, 0, "d") /\ PermIs(l, 8, "w") /\ PermIs(l, 9, "t")

\* C9 as stated: with color enabled a world-writable sticky directory is
\* colored with the directory_o+w_sticky entry whatever its name and
\* whatever other keys the table defines.
C9_AlwaysStickyColor ==
  pc = "named" /\ options.color /\ StickyWorldWritable(listings[1]) =>
    outputBuffer = Lookup(colorMap, K_directory_ow_sticky) \o listings[1].name
                     \o Lookup(colorMap, K_end) \o linkTail(listings[1])

\* C9 amended: with color enabled a world-writable sticky directory is
\* colored with the directory_o+w_sticky entry, unless its name has an
\* extension whose glob key is in the table, and then with the glob's entry;
\* it is never colored as plain directory or any other category.
C9_StickyColorUnlessGlob ==
  pc = "named" /\ options.color /\ StickyWorldWritable(listings[1]) =>
    LET l     == listings[1]
        color == IF GlobPresent(l) THEN Lookup(colorMap, extensionStr(l.name))
                 ELSE Lookup(colorMap, K_directory_ow_sticky)
    IN  outputBuffer = color \o l.name \o Lookup(colorMap, K_end) \o linkTail(l)

\* a world-writable sticky directory without a glob, under a table whose
\* directory, directory_sticky and directory_o+w_sticky entries all differ
C9_Witness ==
  /\ pc = "named"
  /\ options.color
  /\ StickyWorldWritable(listings[1])
  /\ ~GlobPresent(listings[1])
  /\ Lookup(colorMap, K_directory_ow_sticky) # <<>>
  /\ Lookup(colorMap, K_directory_ow_sticky) # Lookup(colorMap, K_directory)
  /\ Lookup(colorMap, K_directory_ow_sticky) # Lookup(colorMap, K_directory_sticky)
  /\ Lookup(colorMap, K_directory_sticky) # <<>>

\* C10: for every mode string of the platform the permissions field of the
\* listing that createListing builds has exactly 10 characters.
C10_TenCharacters ==
  pc \in {"name", "named"} => Len(listings[1].permissions) = 10

----------------------------------------------------------------------------
(* sortListings, listFilesInDir, sortListingsDirsFirst and                 *)
(* writeListingsToBuffer as functions of their arguments, for the steps of *)
(* ls that call them.                                                      *)

\* the most command-line arguments
MaxArgs == 3

\* ls.go:609-619 from index k on: one pass of the exchange sort, as
\* <<slice, done>>
RECURSIVE exchangePass(_, _, _)
exchangePass(s, k, isDone) ==
  IF k >= Len(s) - 1 THEN <<s, isDone>>
  ELSE IF comparisonFunction(s[k + 1], s[k + 2]) > 0 - 1
    THEN exchangePass(Swap(s, k + 1, k + 2), k + 1, FALSE)
  ELSE exchangePass(s, k + 1, isDone)

\* ls.go:606-623: the passes from slice s on. The loop is deterministic, so it
\* never exits once a pass ends on a slice an earlier pass started from (seen);
\* returns tells whether the loop exits.
RECURSIVE exchangeLoop(_, _)
\* ls.go:620-622: the loop exits after a pass that swapped nothing
afterPass(pass, seen) ==
  IF pass[2] THEN [returns |-> TRUE, listings |-> pass[1]]
  ELSE IF pass[1] \in seen THEN [returns |-> FALSE, listings |-> pass[1]]
  ELSE exchangeLoop(pass[1], seen \cup {pass[1]})

exchangeLoop(s, seen) == afterPass(exchangePass(s, 0, TRUE), seen)

\* ls.go:625-643: the reversal of the slice the loop left
reverseIfAsked(sorted) ==
  IF sorted.returns /\ options.sortReverse
  THEN [sorted EXCEPT !.listings = reverseLoop(sorted.listings, 0)]
  ELSE sorted

\* ls.go:599-644
sortListings(s) == reverseIfAsked(exchangeLoop(s, {s}))

\* ls.go:532-536 and 537-541: the entries that are (keep = TRUE) or are not
\* directories, in the order of the slice
dirsOf(ls, keep) ==
  SelectSeq(ls, LAMBDA l : (l.permissions[1] = "d") = keep)

\* sortListingsDirsFirst with the two loops in the other order
sortListingsDirsFirst_OthersFirst(ls) == dirsOf(ls, FALSE) \o dirsOf(ls, TRUE)

\* ls.go:528-544
sortListingsDirsFirst(ls) == dirsOf(ls, TRUE) \o dirsOf(ls, FALSE)

\* a regular file rw-r--r-- of no bytes
File(path) == RegularFile(path, 0, 0)

\* ioutil.ReadDir (ls.go:679) on the file system of the model: "e" holds
\* "B", "a" and the directories "bbb" and "cc", "h" holds only ".x", "." holds
\* "f", and "d" is empty; ReadDir returns the entries sorted by file name
ReadDir(name) ==
  IF name = <<"e">>
    THEN << File(<<"B">>), File(<<"a">>), Directory(<<"b", "b", "b">>),
            Directory(<<"c", "c">>) >>
  ELSE IF name = <<"h">> THEN << File(<<".", "x">>) >>
  ELSE IF name = <<".">> THEN << File(<<"f">>) >>
  ELSE <<>>

\* ls.go:651-677: the listings of "." and ".." under -a
dotListings ==
  IF options.all
  THEN << createListing(Directory(<<".">>), options),
          createListing(Directory(<<".", ".">>), options) >>
  ELSE <<>>

\* ls.go:684-696: a Listing per entry read, the hidden ones skipped unless -a
listingsOf(filesInDir) ==
  [k \in 1..Len(filesInDir) |-> createListing(filesInDir[k], options)]

\* ls.go:648-701
listFilesInDir(dir) ==
  sortListings(dotListings
    \o listingsOf(SelectSeq(ReadDir(dir.name),
                            LAMBDA f : ~(f.path[1] = "." /\ ~options.all))))

\* ls.go:809-812 from index k on: a name and a newline per listing
RECURSIVE oneColumn(_, _, _)
oneColumn(buffer, ls, k) ==
  IF k >= Len(ls) THEN buffer
  ELSE oneColumn(writeListingName(buffer, ls[k + 1]) \o <<"\n">>, ls, k + 1)

\* ls.go:822-870 from the candidate rows on: <<numRows, colWidths>> when the
\* loop breaks
RECURSIVE searchRows(_, _, _)
\* ls.go:854-869: the candidate is kept or the next one is tried
tryRows(ls, width, rows, widths, colListings) ==
  IF maxRowLength(widths) > width /\ rows >= Len(ls) THEN <<rows, widths>>
  ELSE IF maxRowLength(widths) > width THEN searchRows(ls, width, rows + 1)
  ELSE IF shortLastColumn(colListings[1], colListings[Len(colListings)])
    THEN searchRows(ls, width, rows + 1)
  ELSE <<rows, widths>>

\* the widths and the entry counts of the columns of a candidate
columnsOf(ls, rows, zeros) == fillColumns(ls, rows, 0, zeros, zeros)

layoutOf(ls, width, rows, filled) ==
  tryRows(ls, width, rows, filled[1], filled[2])

searchRows(ls, width, rows) ==
  layoutOf(ls, width, rows,
           columnsOf(ls, rows, Zeros(numColsFor(Len(ls), rows))))

\* ls.go:873-881 from index k on: the entries of the given row, each followed
\* by its padding and the separator
RECURSIVE gridRow(_, _, _, _, _, _)
gridRow(buffer, ls, rows, widths, row, k) ==
  IF k >= Len(ls) THEN buffer
  ELSE IF k % rows = row
    THEN gridRow(
           writeListingName(buffer, ls[k + 1])
             \o Spaces(widths[(k \div rows) + 1] - Len(ls[k + 1].name))
             \o <<" ", " ">>,
           ls, rows, widths, row, k + 1)
  ELSE gridRow(buffer, ls, rows, widths, row, k + 1)

\* ls.go:872-886 from the given row on
\* buffer.Truncate(buffer.Len() - n)
dropLast(buffer, n) == Truncate(buffer, Len(buffer) - n)

RECURSIVE gridRows(_, _, _, _, _)
gridRows(buffer, ls, rows, widths, row) ==
  IF row >= rows THEN buffer
  ELSE gridRows(dropLast(gridRow(buffer, ls, rows, widths, row, 0), 2)
                  \o <<"\n">>,
                ls, rows, widths, row + 1)

\* ls.go:705-889 for short listings (options.long is false): the buffer after
\* writeListingsToBuffer(buffer, ls, width)
\* ls.go:813-815
dropLastIfAny(buffer) == IF Len(buffer) > 0 THEN dropLast(buffer, 1) ELSE buffer

\* ls.go:872-887 with the layout <<numRows, colWidths>> the search gave
writeGrid(buffer, ls, layout) ==
  dropLast(gridRows(buffer, ls, layout[1], layout[2], 0), 1)

writeListingsToBuffer(buffer, ls, width) ==
  IF Len(ls) = 0 THEN buffer
  ELSE IF options.one THEN dropLastIfAny(oneColumn(buffer, ls, 0))
  ELSE writeGrid(buffer, ls, searchRows(ls, width, 1))

----------------------------------------------------------------------------
(* ls from the separation of the arguments to its return                   *)
(* (ls.go:1108-1238).                                                      *)

\* the command-line arguments: the files "f" and "g", the empty directory
\* "d", the directory "e" of four entries and the directory "h" of one
\* hidden file
LsArgs ==
  { File(<<"f">>), File(<<"g">>), Directory(<<"d">>), Directory(<<"e">>),
    Directory(<<"h">>) }

LsInit ==
  /\ \E color \in BOOLEAN, one \in BOOLEAN, all \in BOOLEAN,
        dir \in BOOLEAN, dirsFirst \in BOOLEAN :
       options = [ long |-> FALSE, one |-> one, color |-> color,
                   human |-> FALSE, sortReverse |-> FALSE,
                   sortTime |-> FALSE, sortSize |-> FALSE,
                   all |-> all, dir |-> dir, dirsFirst |-> dirsFirst ]
  /\ env = NoEnv
  /\ colorMap = IF options.color THEN resolveColors(env) ELSE <<>>
  /\ files \in SeqsOf(LsArgs, 0, MaxArgs)
  /\ terminalWidth \in {1, MaxWidth}
  /\ listings = <<>>
  /\ IdleSort
  /\ IdleLs
  /\ numRows = 0
  /\ colWidths = <<>>
  /\ tried = {}
  /\ r = 0
  /\ outputBuffer = <<>>
  /\ pc = "args"

\* ls.go:1109-1158: the arguments as Listings, "." for no arguments
argListings ==
  IF Len(files) = 0 THEN << createListing(Directory(<<".">>), options) >>
  ELSE [k \in 1..Len(files) |-> createListing(files[k], options)]

\* info.IsDir() of the argument a Listing was made from (ls.go:1152); with no
\* arguments "." counts as a directory (ls.go:1120-1124)
argIsDir(k) == IF Len(files) = 0 THEN TRUE ELSE "d" \in files[k].mode.flags

\* the indices of the arguments that go to listDirs (toDirs) or to listFiles
argIndices(toDirs) ==
  SelectSeq([k \in 1..Max(Len(files), 1) |-> k],
            LAMBDA k : (~options.dir /\ argIsDir(k)) = toDirs)

\* the Listings of the arguments at the given indices, in that order
argsAt(indices) == [k \in 1..Len(indices) |-> argListings[indices[k]]]

\* ls.go:1109-1165: the arguments are separated and each list is sorted; the
\* program hangs when a sort never returns
SeparateArgs ==
  /\ pc = "args"
  /\ \E sortedFiles \in {sortListings(argsAt(argIndices(FALSE)))},
        sortedDirs \in {sortListings(argsAt(argIndices(TRUE)))} :
       IF sortedFiles.returns /\ sortedDirs.returns
       THEN /\ listFiles' = sortedFiles.listings
            /\ listDirs' = sortedDirs.listings
            /\ pc' = "filesFirst"
       ELSE /\ pc' = "hung"
            /\ UNCHANGED <<listFiles, listDirs>>
  /\ UNCHANGED <<options, colorMap, env, files, listings, origin, input,
                 sortedOut, i, done, terminalWidth, numRows, colWidths, tried,
                 r, outputBuffer, nextDir>>

\* ls.go:1170-1174
WriteFilesFirst ==
  /\ pc = "filesFirst"
  /\ outputBuffer' =
       IF Len(listFiles) > 0 /\ ~options.dirsFirst
       THEN writeListingsToBuffer(outputBuffer, listFiles, terminalWidth)
       ELSE outputBuffer
  /\ pc' = "dirs"
  /\ UNCHANGED <<options, colorMap, env, files, listings, origin, input,
                 sortedOut, i, done, terminalWidth, numRows, colWidths, tried,
                 r, listFiles, listDirs, nextDir>>

\* ls.go:1179: the directories are listed under headers
withHeaders ==
  \/ Len(listFiles) > 0 /\ Len(listDirs) > 0
  \/ Len(listDirs) > 1

\* ls.go:1179-1182
BeginBlocks ==
  /\ pc = "dirs"
  /\ withHeaders
  /\ outputBuffer' =
       IF Len(listFiles) > 0 /\ ~options.dirsFirst
       THEN outputBuffer \o <<"\n", "\n">>
       ELSE outputBuffer
  /\ nextDir' = 0
  /\ pc' = "block"
  /\ UNCHANGED <<options, colorMap, env, files, listings, origin, input,
                 sortedOut, i, done, terminalWidth, numRows, colWidths, tried,
                 r, listFiles, listDirs>>

\* blockEnd with a blank line after every block
blockEnd_AlwaysBlankLine(n) == <<"\n", "\n">>

\* ls.go:1197-1204: what ends the block of a directory of n listings
blockEnd(n) == IF n > 0 THEN <<"\n", "\n">> ELSE <<"\n">>

\* ls.go:1188-1195, 1211-1218: the listings of a directory, directories first
\* under --dirs-first
dirsFirstIfAsked(listed) ==
  IF options.dirsFirst
  THEN [listed EXCEPT !.listings = sortListingsDirsFirst(listed.listings)]
  ELSE listed

dirListings(dir) == dirsFirstIfAsked(listFilesInDir(dir))

\* ls.go:1184-1205: one iteration of the loop over listDirs
WriteBlock ==
  /\ pc = "block"
  /\ nextDir < Len(listDirs)
  /\ \E listed \in {dirListings(listDirs[nextDir + 1])},
        header \in {writeListingName(outputBuffer, listDirs[nextDir + 1])
                      \o <<":", "\n">>} :
       IF listed.returns
       THEN /\ listings' = listed.listings
            /\ outputBuffer' =
                 writeListingsToBuffer(header, listed.listings, terminalWidth)
                   \o blockEnd(Len(listed.listings))
            /\ nextDir' = nextDir + 1
            /\ pc' = "block"
       ELSE /\ outputBuffer' = header
            /\ pc' = "hung"
            /\ UNCHANGED <<listings, nextDir>>
  /\ UNCHANGED <<options, colorMap, env, files, origin, input, sortedOut, i,
                 done, terminalWidth, numRows, colWidths, tried, r, listFiles,
                 listDirs>>

\* ls.go:1207: the loop is over
EndBlocks ==
  /\ pc = "block"
  /\ nextDir >= Len(listDirs)
  /\ outputBuffer' = Truncate(outputBuffer, Len(outputBuffer) - 2)
  /\ pc' = "filesLast"
  /\ UNCHANGED <<options, colorMap, env, files, listings, origin, input,
                 sortedOut, i, done, terminalWidth, numRows, colWidths, tried,
                 r, listFiles, listDirs, nextDir>>

\* ls.go:1208-1224: a single directory and no files, no header
SingleDir ==
  /\ pc = "dirs"
  /\ ~withHeaders
  /\ Len(listDirs) = 1
  /\ \E listed \in {dirListings(listDirs[1])} :
       IF listed.returns
       THEN /\ listings' = listed.listings
            /\ outputBuffer' =
                 writeListingsToBuffer(outputBuffer, listed.listings,
                                       terminalWidth)
            /\ pc' = "filesLast"
       ELSE /\ pc' = "hung"
            /\ UNCHANGED <<listings, outputBuffer>>
  /\ UNCHANGED <<options, colorMap, env, files, origin, input, sortedOut, i,
                 done, terminalWidth, numRows, colWidths, tried, r, listFiles,
                 listDirs, nextDir>>

\* ls.go:1179, 1208: neither branch is taken for no directories
NoDirs ==
  /\ pc = "dirs"
  /\ ~withHeaders
  /\ Len(listDirs) # 1
  /\ pc' = "filesLast"
  /\ UNCHANGED <<options, colorMap, env, files, listings, origin, input,
                 sortedOut, i, done, terminalWidth, numRows, colWidths, tried,
                 r, outputBuffer, listFiles, listDirs, nextDir>>

\* ls.go:1229-1238
WriteFilesLast ==
  /\ pc = "filesLast"
  /\ outputBuffer' =
       IF Len(listFiles) > 0 /\ options.dirsFirst
       THEN writeListingsToBuffer(
              IF Len(listDirs) > 0 THEN outputBuffer \o <<"\n", "\n">>
              ELSE outputBuffer,
              listFiles, terminalWidth)
       ELSE outputBuffer
  /\ pc' = "returned"
  /\ UNCHANGED <<options, colorMap, env, files, listings, origin, input,
                 sortedOut, i, done, terminalWidth, numRows, colWidths, tried,
                 r, listFiles, listDirs, nextDir>>

LsNext ==
  \/ SeparateArgs \/ WriteFilesFirst \/ BeginBlocks \/ WriteBlock
  \/ EndBlocks \/ SingleDir \/ NoDirs \/ WriteFilesLast

LsSpec == LsInit /\ [][LsNext]_vars

----------------------------------------------------------------------------
(* Properties of the output of ls.                                         *)

\* parts[k], parts[k + 1], ... with sep between them
RECURSIVE JoinFrom(_, _, _)
JoinFrom(parts, sep, k) ==
  IF k > Len(parts) THEN <<>>
  ELSE IF k = Len(parts) THEN parts[k]
  ELSE parts[k] \o sep \o JoinFrom(parts, sep, k + 1)

Join(parts, sep) == JoinFrom(parts, sep, 1)

\* the group of the non-directory arguments
FileGroup == writeListingsToBuffer(<<>>, listFiles, terminalWidth)

\* the listing of a directory argument
DirBody(dir) ==
  writeListingsToBuffer(<<>>, dirListings(dir).listings, terminalWidth)

\* the block of a directory argument: the header line, then its listing
Block(dir) ==
  writeListingName(<<>>, dir) \o <<":">>
    \o (IF Len(dirListings(dir).listings) > 0
        THEN <<"\n">> \o DirBody(dir) ELSE <<>>)

\* the groups of the output in order
Groups ==
  (IF Len(listFiles) > 0 /\ ~options.dirsFirst THEN <<FileGroup>> ELSE <<>>)
    \o [k \in 1..Len(listDirs) |-> Block(listDirs[k])]
    \o (IF Len(listFiles) > 0 /\ options.dirsFirst THEN <<FileGroup>> ELSE <<>>)

BlankLines(buffer) ==
  {k \in 1..Len(Lines(buffer)) : Lines(buffer)[k] = <<>>}

\* C11: when ls returns with D directories and F non-directory entries, D > 1
\* or (D >= 1 and F >= 1), the output is one block per directory, a header
\* line "<name>:" followed by the directory's listing, and the group of the
\* non-directory entries before the blocks (after them under --dirs-first),
\* with exactly one blank line between consecutive groups and no newline at
\* the end; when D = 1 and F = 0 the output is the listing without a header.
C11_Blocks ==
  pc = "returned" =>
    /\ Len(listDirs) > 1 \/ (Len(listDirs) >= 1 /\ Len(listFiles) >= 1) =>
         /\ outputBuffer = Join(Groups, <<"\n", "\n">>)
         /\ Cardinality(BlankLines(outputBuffer)) = Len(Groups) - 1
         /\ \A k \in BlankLines(outputBuffer) :
              /\ k > 1 /\ k < Len(Lines(outputBuffer))
              /\ k + 1 \notin BlankLines(outputBuffer)
         /\ outputBuffer[Len(outputBuffer)] # "\n"
    /\ Len(listDirs) = 1 /\ Len(listFiles) = 0 =>
         /\ outputBuffer = DirBody(listDirs[1])
         /\ \A k \in 1..Len(Lines(outputBuffer)) :
              Lines(outputBuffer)[k]
                # writeListingName(<<>>, listDirs[1]) \o <<":">>

C11_Witness ==
  /\ pc = "returned"
  /\ options.dirsFirst
  /\ Len(listFiles) = 1
  /\ Len(listDirs) = 2
  /\ Len(dirListings(listDirs[1]).listings) = 0
  /\ Len(dirListings(listDirs[2]).listings) > 1

----------------------------------------------------------------------------
(* sortListingsDirsFirst (ls.go:528-544) on the listings of a directory.   *)

\* the entries of the directory: a file, a directory, a sticky directory and
\* a symlink
DirsFirstFiles ==
  { File(<<"a">>), Directory(<<"b">>),
    [Directory(<<"c">>) EXCEPT !.mode.flags = {"d", "t"}],
    [File(<<"l">>) EXCEPT !.mode.flags = {"L"}, !.link = <<"b">>] }

DirsFirstInit ==
  /\ options = [ long |-> FALSE, one |-> FALSE, color |-> FALSE,
                 human |-> FALSE, sortReverse |-> FALSE,
                 sortTime |-> FALSE, sortSize |-> FALSE,
                 all |-> FALSE, dir |-> FALSE, dirsFirst |-> TRUE ]
  /\ env = NoEnv
  /\ colorMap = <<>>
  /\ files \in SeqsOf(DirsFirstFiles, 0, MaxLen)
  /\ listings = [k \in 1..Len(files) |-> createListing(files[k], options)]
  /\ origin = <<>>
  /\ input = listings
  /\ sortedOut = <<>>
  /\ i = 0
  /\ done = FALSE
  /\ IdleGrid
  /\ IdleLs
  /\ pc = "listed"

\* ls.go:1193-1195: listings = sortListingsDirsFirst(listings); the slice
\* passed stays in listings, the slice returned is kept in sortedOut
DirsFirst ==
  /\ pc = "listed"
  /\ sortedOut' = sortListingsDirsFirst(listings)
  /\ pc' = "dirsFirst"
  /\ UNCHANGED <<options, colorMap, env, files, listings, origin, input, i,
                 done, terminalWidth, numRows, colWidths, tried, r,
                 outputBuffer, listFiles, listDirs, nextDir>>

DirsFirstNext == DirsFirst

DirsFirstSpec == DirsFirstInit /\ [][DirsFirstNext]_vars

IsDirListing(l) == l.permissions[1] = "d"

\* C12: sortListingsDirsFirst returns a permutation of its input in which
\* every entry whose permissions start with "d" precedes every other entry,
\* the entries of each group keep their input order, and the input slice is
\* left as it was.
C12_StablePartition ==
  pc = "dirsFirst" =>
    /\ listings = input
    /\ Len(sortedOut) = Len(input)
    /\ \E f \in [1..Len(input) -> 1..Len(input)] :
         /\ \A j, k \in 1..Len(input) : j # k => f[j] # f[k]
         /\ \A k \in 1..Len(input) : sortedOut[k] = input[f[k]]
         /\ \A j, k \in 1..Len(input) :
              j < k =>
                /\ IsDirListing(sortedOut[j]) \/ ~IsDirListing(sortedOut[k])
                /\ IsDirListing(sortedOut[j]) = IsDirListing(sortedOut[k])
                     => f[j] < f[k]

C12_Witness ==
  /\ pc = "dirsFirst"
  /\ Len(input) = MaxLen
  /\ ~IsDirListing(input[1])
  /\ IsDirListing(input[2])
  /\ IsDirListing(input[3])
  /\ input[2] # input[3]
  /\ sortedOut = <<input[2], input[3], input[1]>>

----------------------------------------------------------------------------
(* The comparison functions as orderings of the listings being sorted.     *)

\* a sorts strictly before b under the comparison function of the key
Before(key, a, b) ==
  IF key = "time" THEN compareTime(a, b) = 0 - 1
  ELSE IF key = "size" THEN compareSize(a, b) = 0 - 1
  ELSE compareName(a, b) = 0 - 1

Incomparable(key, a, b) == ~Before(key, a, b) /\ ~Before(key, b, a)

\* the listings handed to sortListings
Sorted == {listings[k] : k \in 1..Len(listings)}

StrictWeakOrder(key) ==
  /\ \A a \in Sorted : ~Before(key, a, a)
  /\ \A a, b \in Sorted : ~(Before(key, a, b) /\ Before(key, b, a))
  /\ \A a, b, c \in Sorted :
       Before(key, a, b) /\ Before(key, b, c) => Before(key, a, c)
  /\ \A a, b, c \in Sorted :
       Incomparable(key, a, b) /\ Incomparable(key, b, c)
         => Incomparable(key, a, c)

\* C13: each of compareName, compareTime and compareSize, read as "a sorts
\* strictly before b" when it returns -1, is a strict weak ordering of the
\* listings: irreflexive, asymmetric, transitive, and with transitive
\* incomparability.
C13_StrictWeakOrder ==
  pc # "scan" => \A key \in {"name", "time", "size"} : StrictWeakOrder(key)

\* compareName alone is a strict weak ordering
NameIsStrictWeakOrder == pc # "scan" => StrictWeakOrder("name")

----------------------------------------------------------------------------
(* The rows of the grid.                                                   *)

\* the 0-based positions p of the entries of a row, p mod numRows = row, in
\* increasing order
RowPositions(row) ==
  SelectSeq([k \in 1..Len(listings) |-> k - 1], LAMBDA p : p % numRows = row)

\* the entry at position p as written, padded to the width of its column
PaddedName(p) ==
  writeListingName(<<>>, listings[p + 1])
    \o Spaces(colWidths[(p \div numRows) + 1] - Len(listings[p + 1].name))

\* a row whose last name has neither padding nor separator after it
RowLastBare(row) ==
  LET ps == RowPositions(row)
  IN  Join([k \in 1..Len(ps) |->
              IF k < Len(ps) THEN PaddedName(ps[k])
              ELSE writeListingName(<<>>, listings[ps[k] + 1])],
           <<" ", " ">>)

\* a row whose every name is padded, the last one included
RowLastPadded(row) ==
  LET ps == RowPositions(row)
  IN  Join([k \in 1..Len(ps) |-> PaddedName(ps[k])], <<" ", " ">>)

\* C14: in grid mode each output row holds the entries at the positions p
\* with p mod numRows = row, in increasing p; every name but the last of the
\* row is padded to its column's width and followed by the 2-space
\* separator, and the last name of the row has neither padding nor
\* separator after it.
C14_LastNameBare ==
  pc = "written" /\ Len(listings) >= 1 =>
    outputBuffer = Join([k \in 1..numRows |-> RowLastBare(k - 1)], <<"\n">>)

\* the rows as the code writes them: the last name of a row is padded too
RowsLastPadded ==
  pc = "written" /\ Len(listings) >= 1 =>
    outputBuffer = Join([k \in 1..numRows |-> RowLastPadded(k - 1)], <<"\n">>)

----------------------------------------------------------------------------
(* The colour table built from LS_COLORS.                                  *)

\* C15: when the colour table is built from an LS_COLORS string, it has no
\* entry under the key "ca" and none under the key "do".
C15_NoCaNoDo ==
  pc # "env" /\ options.color /\ env.LSCOLORS = <<>> /\ env.LS_COLORS # <<>> =>
    /\ <<"c", "a">> \notin DOMAIN colorMap
    /\ <<"d", "o">> \notin DOMAIN colorMap

----------------------------------------------------------------------------
(* The colour table built from a one-pair LSCOLORS: the pair sets the      *)
(* colour of directories (ls.go:197-199).                                  *)

\* the letters of a BSD pair
BsdLetters ==
  { "a", "b", "c", "d", "e", "f", "g", "h",
    "A", "B", "C", "D", "E", "F", "G", "H", "x" }

BsdInit ==
  /\ options = [ long |-> FALSE, one |-> FALSE, color |-> TRUE,
                 human |-> FALSE, sortReverse |-> FALSE,
                 sortTime |-> FALSE, sortSize |-> FALSE ]
  /\ \E fg \in BsdLetters, bg \in BsdLetters :
       env = [LSCOLORS |-> <<fg, bg>>, LS_COLORS |-> <<>>]
  /\ colorMap = <<>>
  /\ files = << Directory(<<"d">>) >>
  /\ listings = <<>>
  /\ IdleSort
  /\ IdleGrid
  /\ IdleLs
  /\ pc = "env"

BsdSpec == BsdInit /\ [][NameNext]_vars

IsLower(letter) == Code(letter) >= Code("a") /\ Code(letter) <= Code("h")

IsUpper(letter) == Code(letter) >= Code("A") /\ Code(letter) <= Code("H")

\* 0 for a and A, ..., 7 for h and H
ColorIndex(letter) ==
  IF IsLower(letter) THEN Code(letter) - Code("a")
  ELSE Code(letter) - Code("A")

\* the fg-part claimed for a foreground letter
ClaimedFg(fg) ==
  IF fg = "x" THEN <<"0", ";">>
  ELSE IF IsLower(fg) THEN <<"0", ";">> \o Itoa(colorFgBlack + ColorIndex(fg))
  ELSE <<"1", ";">> \o Itoa(colorFgBlack + ColorIndex(fg))

\* the bg-parts claimed for a background letter: a lowercase letter names a
\* background colour; for an uppercase letter either colour of that index
ClaimedBg(bg) ==
  IF bg = "x" THEN { <<>> }
  ELSE IF IsLower(bg) THEN { <<";">> \o Itoa(colorBgBlack + ColorIndex(bg)) }
  ELSE { <<";">> \o Itoa(colorBgBlack + ColorIndex(bg)),
         <<";">> \o Itoa(colorFgBlack + ColorIndex(bg)) }

\* C16: getColorFromBsdCode decodes the pair (fg, bg) to ESC[ fg-part bg-part
\* m, the fg-part being exactly "0;" for fg "x", "0;" and the colour number
\* for a..h, "1;" and the colour number for A..H, and the bg-part being empty
\* for bg "x" and ";" and the colour number otherwise; "xx" decodes to
\* ESC[0;m.
C16_BsdDecode ==
  pc # "env" =>
    \E bgPart \in ClaimedBg(env.LSCOLORS[2]) :
      Lookup(colorMap, K_directory)
        = <<"ESC", "[">> \o ClaimedFg(env.LSCOLORS[1]) \o bgPart \o <<"m">>

\* the decoding is as claimed for every pair whose foreground is not "x"
BsdDecodeUnlessDefaultFg ==
  pc # "env" /\ env.LSCOLORS[1] # "x" =>
    \E bgPart \in ClaimedBg(env.LSCOLORS[2]) :
      Lookup(colorMap, K_directory)
        = <<"ESC", "[">> \o ClaimedFg(env.LSCOLORS[1]) \o bgPart \o <<"m">>

----------------------------------------------------------------------------
(* The search for the row count and the rows it leads to.                  *)

\* the entry counts of the columns for the candidate numRows (ls.go:832-845)
CandidateCounts ==
  fillColumns(listings, numRows, 0,
              Zeros(numColsFor(Len(listings), numRows)),
              Zeros(numColsFor(Len(listings), numRows)))[2]

\* every iteration of the search has 1 <= numRows <= n, every index i /
\* numRows is a column of the candidate and every column receives an entry
SearchInRange ==
  pc = "layout" =>
    /\ numRows >= 1 /\ numRows <= Len(listings)
    /\ \A k \in 0..(Len(listings) - 1) :
         (k \div numRows) + 1 \in 1..numColsFor(Len(listings), numRows)
    /\ \A c \in 1..numColsFor(Len(listings), numRows) : CandidateCounts[c] >= 1

\* every row written holds an entry, and the bytes trimmed from it are the
\* separator after its last entry
RowsTrimSeparator ==
  pc = "rows" /\ r < numRows =>
    /\ numRows <= Len(listings)
    /\ Len(RowPositions(r)) >= 1
    /\ LET row == writeRow(outputBuffer, 0)
       IN  /\ SubSeq(row, Len(row) - 1, Len(row)) = <<" ", " ">>
           /\ Truncate(row, Len(row) - 2) = outputBuffer \o RowLastPadded(r)

\* the iterations taken so far rejected the candidates 1..numRows - 1, one
\* each, so the search takes at most n iterations
SearchAdvances ==
  pc \in {"layout", "rows"} =>
    /\ {t.rows : t \in tried} = 1..(numRows - 1)
    /\ Cardinality(tried) = numRows - 1
    /\ numRows <= Len(listings)

\* C17: for n >= 1 names and every width the search for the row count
\* terminates with 1 <= numRows <= n in every iteration; every column of
\* every candidate receives an entry and no column index is out of range;
\* every output row holds an entry, so trimming the trailing separator of a
\* row removes no character of a name.
C17_SearchBounded ==
  SearchInRange /\ RowsTrimSeparator /\ SearchAdvances

C17_Witness ==
  /\ pc = "rows"
  /\ r = numRows - 1
  /\ Len(listings) >= 2
  /\ numRows = Len(listings)
  /\ \E t \in tried : t.why = "short"

----------------------------------------------------------------------------
(* The reset sequence after a name.                                        *)

\* the buffer is the bare name directly followed by the reset sequence:
\* the reset was written and nothing was written before the name
ResetWithoutColor ==
  LET l     == listings[1]
      reset == Lookup(colorMap, K_end)
  IN  /\ reset # <<>>
      /\ Len(outputBuffer) >= Len(l.name) + Len(reset)
      /\ SubSeq(outputBuffer, 1, Len(l.name) + Len(reset)) = l.name \o reset

\* C18: with color enabled, whenever writeListingName writes the reset
\* sequence after a name it has written a non-empty colour escape sequence
\* before that name, for every listing and every colour table the resolver
\* builds.
C18_ResetAfterColor ==
  pc = "named" /\ options.color => ~ResetWithoutColor

====
